---- MODULE Spec2Model ----
(***************************************************************************)
(* Wordle-Assistant (src/Wordle.py): the candidate generator               *)
(* generate_words, the constraint parsing and reporting of main, and the   *)
(* conditional download of the word list (download_if_updated).            *)
(*                                                                         *)
(* A word is a tuple of five letters, a letter a one-character string.     *)
(* A Python dict is a function whose DOMAIN is its key set; a Python list  *)
(* is a sequence.                                                          *)
(***************************************************************************)
EXTENDS Integers, Sequences, FiniteSets, TLC

VARIABLES
    pc,               \* position of the run being modelled
    greens,           \* dict: position key -> letter
    yellows,          \* dict: position key -> list of letters
    grays,            \* list of letters
    english_words,    \* the loaded dictionary (only membership is used)
    yellow_chars,     \* line 67 as laid out by the first call
    chars_by_index,   \* the per-slot candidate lists of the first call
    generated_words,  \* what the first call returned
    yellow_chars2,    \* line 67 as laid out by the second call
    generated_words2, \* what the second call returned
    green,            \* main: the green text typed by the user
    yellow,           \* main: the yellow text, split into tokens
    gray,             \* main: the gray text
    raised,           \* main: the function in which the fatal exception was raised
    reported,         \* main: the candidate words logged so far
    exit_code,        \* main: the value handed to sys.exit
    etag_file,        \* download: content of etag.txt (NoFile when absent)
    word_file,        \* download: content of words.txt (NoFile when absent)
    server,           \* download: the version the server currently holds
    response          \* download: the response being handled

vars == <<pc, greens, yellows, grays, english_words, yellow_chars, chars_by_index,
          generated_words, yellow_chars2, generated_words2, green, yellow,
          gray, raised, reported, exit_code, etag_file, word_file, server,
          response>>

genVars == <<greens, yellows, grays, english_words, yellow_chars, chars_by_index,
             generated_words, yellow_chars2, generated_words2>>
mainVars == <<green, yellow, gray, raised, reported, exit_code>>
cacheVars == <<etag_file, word_file, server, response>>

-----------------------------------------------------------------------------
(* Bounds and constants *)

\* total number of feedback items (green letters + yellow entries + gray
\* letters) handed to generate_words
MaxFeedback == 3

\* the same total for the runs that call generate_words twice
MaxFeedbackTwice == 3

\* main: the longest green text typed, and the most yellow tokens typed
MaxGreenLen == 6
MaxTokens == 2

\* download: the number of versions of the word list the server goes through
MaxVersions == 3

WordLen == 5

ENGLISH_CHARACTERS ==
    <<"a","b","c","d","e","f","g","h","i","j","k","l","m",
      "n","o","p","q","r","s","t","u","v","w","x","y","z">>

\* the letters the user's feedback and the dictionary are drawn from
Letters == {"a", "b"}

\* str(i) for a one-digit i
Str(i) == <<"0", "1", "2", "3", "4", "5", "6", "7", "8", "9">>[i + 1]

\* the keys "1".."5" of chars_by_index (lines 71-77), outermost loop first
KeyOf == [p \in 1..WordLen |-> Str(p)]
Keys == {KeyOf[p] : p \in 1..WordLen}

Range(s) == {s[i] : i \in 1..Len(s)}

\* the elements of a finite set of integers in increasing order
Ascending(S) ==
    [n \in 1..Cardinality(S) |->
        CHOOSE i \in S : Cardinality({j \in S : j <= i}) = n]

AllWords == [1..WordLen -> Letters]

\* the dictionaries a run is tried with
Dictionaries == {{}, AllWords, {w \in AllWords : w[1] = "a"}}

Idle == <<>>
NoFile == "NoFile"

-----------------------------------------------------------------------------
(* generate_words *)

\* list.remove(char) guarded by `char in list`: drops the first occurrence only
RemoveFirst(list, char) ==
    IF char \in Range(list)
    THEN LET i == CHOOSE n \in 1..Len(list) :
                      /\ list[n] = char
                      /\ \A m \in 1..(n-1) : list[m] # char
         IN  SubSeq(list, 1, i-1) \o SubSeq(list, i+1, Len(list))
    ELSE list

\* the inner loop of lines 83-85 over one yellow entry
RECURSIVE RemoveChars(_, _)
RemoveChars(list, chars) ==
    IF chars = <<>> THEN list
    ELSE RemoveChars(RemoveFirst(list, Head(chars)), Tail(chars))

\* line 66: the dict's values, in the order main inserted them (by position)
GreenChars(gs) ==
    LET ps == Ascending({p \in 1..9 : Str(p) \in DOMAIN gs})
    IN  [n \in 1..Len(ps) |-> gs[Str(ps[n])]]

\* the distinct letters of all yellow entries (the set of line 67)
YellowSet(ys) == UNION {Range(ys[k]) : k \in DOMAIN ys}

\* the lists line 67 can produce: the set's letters in any iteration order
Orderings(S) ==
    {s \in [1..Cardinality(S) -> S] : \A i, j \in 1..Cardinality(S) :
                                            i # j => s[i] # s[j]}

\* mutant: the pool leaves out the gray letters
AvailableChars_NoGrays(gs, yc, gr) == GreenChars(gs) \o yc

\* line 69
AvailableChars(gs, yc, gr) == GreenChars(gs) \o yc \o gr

\* mutant: the green letters are not pinned, every slot gets the pool
CharsAfterGreens_Unpinned(gs, available) ==
    [k \in Keys \cup DOMAIN gs |-> available]

\* lines 71-80: every slot gets a copy of the pool, a green slot its letter
CharsAfterGreens(gs, available) ==
    [k \in Keys \cup DOMAIN gs |->
        IF k \in DOMAIN gs THEN <<gs[k]>> ELSE available]

\* mutant: the lookup of line 84 skips a key chars_by_index does not have
RaisesKeyError_Never(gs, ys) == FALSE

\* line 84 looks up chars_by_index[str(index)]: a yellow key that is no key
\* of chars_by_index raises KeyError
RaisesKeyError(gs, ys) ==
    \E k \in DOMAIN ys : k \notin (Keys \cup DOMAIN gs)

\* mutant: the yellow letters are removed before the greens are pinned
CharsByIndex_GreensLast(gs, ys, available) ==
    [k \in Keys \cup DOMAIN gs |->
        IF k \in DOMAIN gs THEN <<gs[k]>>
        ELSE IF k \in DOMAIN ys THEN RemoveChars(available, ys[k])
        ELSE available]

\* lines 71-85
CharsByIndex(gs, ys, available) ==
    LET afterGreens == CharsAfterGreens(gs, available)
    IN  [k \in DOMAIN afterGreens |->
            IF k \in DOMAIN ys THEN RemoveChars(afterGreens[k], ys[k])
            ELSE afterGreens[k]]

\* mutant: the yellow letters are not required
Passes_NoYellowTest(word, yc, dict) == word \in dict

\* mutant: the dictionary is not consulted
Passes_NoDictionaryTest(word, yc, dict) ==
    \A i \in 1..Len(yc) : yc[i] \in Range(word)

\* mutant: only the first yellow letter is required
Passes_FirstYellowOnly(word, yc, dict) ==
    /\ yc # <<>> => yc[1] \in Range(word)
    /\ word \in dict

\* lines 96-99: the two `continue` tests of the innermost loop
Passes(word, yc, dict) ==
    /\ \A i \in 1..Len(yc) : yc[i] \in Range(word)
    /\ word \in dict

\* lines 90-99: the loop over slot p (from its idx-th letter on) with the
\* letters of the outer loops in prefix; the words that reach line 100, in
\* the order the loops produce them
RECURSIVE ForEach(_, _, _, _, _, _)
ForEach(cbi, p, idx, prefix, yc, dict) ==
    LET list == cbi[KeyOf[p]] IN
    IF idx > Len(list) THEN <<>>
    ELSE LET word == Append(prefix, list[idx])
             inner == IF p < WordLen THEN ForEach(cbi, p+1, 1, word, yc, dict)
                      ELSE IF Passes(word, yc, dict) THEN <<word>>
                      ELSE <<>>
         IN  inner \o ForEach(cbi, p, idx+1, prefix, yc, dict)

\* mutant: a word seen again moves to the end of the list
FirstSeen_KeepsLast(ws) ==
    LET last == Ascending({i \in 1..Len(ws) :
                              \A j \in (i+1)..Len(ws) : ws[j] # ws[i]})
    IN  [n \in 1..Len(last) |-> ws[last[n]]]

\* lines 100-101: a word is appended only if it is not in the list yet, so
\* the list keeps the first occurrence of every word
FirstSeen(ws) ==
    LET first == Ascending({i \in 1..Len(ws) :
                               \A j \in 1..(i-1) : ws[j] # ws[i]})
    IN  [n \in 1..Len(first) |-> ws[first[n]]]

\* generate_words, given the list yc that line 67 produced
generate_words(gs, ys, gr, dict, yc) ==
    LET available == AvailableChars(gs, yc, gr)
        cbi == CharsByIndex(gs, ys, available)
    IN  FirstSeen(ForEach(cbi, 1, 1, <<>>, yc, dict))

-----------------------------------------------------------------------------
(* Inputs of generate_words *)

SeqsUpTo(S, n) == UNION {[1..m -> S] : m \in 0..n}

RECURSIVE SumLen(_, _)
SumLen(f, ks) ==
    IF ks = {} THEN 0
    ELSE LET k == CHOOSE x \in ks : TRUE
         IN  Len(f[k]) + SumLen(f, ks \ {k})

\* the greens dicts of exactly n entries
GreenDicts(n) ==
    UNION {[ks -> Letters] : ks \in {s \in SUBSET Keys : Cardinality(s) = n}}

\* the yellows dicts whose lists hold n letters in all (no list is empty)
YellowDicts(n) ==
    UNION {{f \in [ks -> SeqsUpTo(Letters, n + 1 - Cardinality(ks)) \ {<<>>}] :
                SumLen(f, ks) = n} :
              ks \in {s \in SUBSET Keys : Cardinality(s) <= n}}

\* feedback of at most n items in all
Feedback(n) ==
    UNION {UNION {GreenDicts(ng) \X YellowDicts(ny)
                      \X SeqsUpTo(Letters, n - ng - ny) :
                  ny \in 0..(n - ng)} : ng \in 0..n}

\* a fully green row and nothing else
AllGreenFeedback == [Keys -> Letters] \X {<<>>} \X {<<>>}

MainIdle ==
    /\ green = <<>> /\ yellow = <<>> /\ gray = <<>>
    /\ raised = "" /\ reported = <<>> /\ exit_code = 0

CacheIdle ==
    /\ etag_file = NoFile /\ word_file = NoFile /\ server = 0
    /\ response = Idle

InitCall(inputs) ==
    /\ pc = "call"
    /\ \E in \in inputs :
          /\ greens = in[1]
          /\ yellows = in[2]
          /\ grays = in[3]
    /\ english_words \in Dictionaries
    /\ yellow_chars = <<>> /\ chars_by_index = <<>> /\ generated_words = <<>>
    /\ yellow_chars2 = <<>> /\ generated_words2 = <<>>
    /\ MainIdle /\ CacheIdle

Init == InitCall(Feedback(MaxFeedback) \cup AllGreenFeedback)

\* a call of generate_words
Generate ==
    /\ pc = "call"
    /\ \E yc \in Orderings(YellowSet(yellows)) :
          /\ yellow_chars' = yc
          /\ chars_by_index' =
                CharsByIndex(greens, yellows, AvailableChars(greens, yc, grays))
          /\ generated_words' =
                generate_words(greens, yellows, grays, english_words, yc)
    /\ pc' = "returned"
    /\ UNCHANGED <<greens, yellows, grays, english_words, yellow_chars2,
                   generated_words2, mainVars, cacheVars>>

Next == Generate

Spec == Init /\ [][Next]_vars

\* a second call with the same arguments, in the same or in another process
GenerateAgain ==
    /\ pc = "returned"
    /\ \E yc \in Orderings(YellowSet(yellows)) :
          /\ yellow_chars2' = yc
          /\ generated_words2' =
                generate_words(greens, yellows, grays, english_words, yc)
    /\ pc' = "returned2"
    /\ UNCHANGED <<greens, yellows, grays, english_words, yellow_chars,
                   chars_by_index, generated_words, mainVars, cacheVars>>

\* the feedback with two distinct yellow letters: with fewer, the set of
\* line 67 has one iteration order and the two calls run the same steps
InitTwice ==
    InitCall({in \in Feedback(MaxFeedbackTwice) :
                 Cardinality(YellowSet(in[2])) > 1})

NextTwice == Generate \/ GenerateAgain

SpecTwice == InitTwice /\ [][NextTwice]_vars

-----------------------------------------------------------------------------
(* Properties of generate_words *)

Returned == pc \in {"returned", "returned2"}

\* the base pool: green, yellow and gray letters
Pool == Range(GreenChars(greens)) \cup YellowSet(yellows) \cup Range(grays)

\* the letters yellows lists for slot p
YellowAt(p) ==
    IF KeyOf[p] \in DOMAIN yellows THEN Range(yellows[KeyOf[p]]) ELSE {}

Alpha(c) == CHOOSE i \in 1..Len(ENGLISH_CHARACTERS) : ENGLISH_CHARACTERS[i] = c

\* v < w as Python compares two strings of lowercase letters
LexLess(v, w) ==
    \E p \in 1..WordLen :
        /\ Alpha(v[p]) < Alpha(w[p])
        /\ \A q \in 1..(p-1) : v[q] = w[q]

\* the index at which the loop over slot p first yields the letter c
FirstIndex(p, c) ==
    CHOOSE n \in 1..Len(chars_by_index[KeyOf[p]]) :
        /\ chars_by_index[KeyOf[p]][n] = c
        /\ \A m \in 1..(n-1) : chars_by_index[KeyOf[p]][m] # c

\* the nested loops reach v before w
GeneratedBefore(v, w) ==
    \E p \in 1..WordLen :
        /\ FirstIndex(p, v[p]) < FirstIndex(p, w[p])
        /\ \A q \in 1..(p-1) : v[q] = w[q]

\* C1: no returned word has, at a slot, a letter yellows lists for that slot
C1_NoYellowLetterAtItsSlot ==
    Returned =>
        \A n \in 1..Len(generated_words) : \A p \in 1..WordLen :
            generated_words[n][p] \notin YellowAt(p)

\* C2 as stated: the candidate list of a green slot holds exactly the green
\* letter, whatever yellows contains
C2_GreenSlotIsExactlyGreen ==
    Returned =>
        \A k \in DOMAIN greens : Range(chars_by_index[k]) = {greens[k]}

\* C2 amended: the candidate list of a green slot is the green letter alone,
\* unless yellows lists the green letter at that slot: then the list is empty
\* and nothing is returned; every returned word has the green letter there
C2_GreenSlotUnlessYellowed ==
    Returned =>
        /\ \A k \in DOMAIN greens :
              chars_by_index[k] =
                  IF k \in DOMAIN yellows /\ greens[k] \in Range(yellows[k])
                  THEN <<>> ELSE <<greens[k]>>
        /\ \A n \in 1..Len(generated_words) : \A p \in 1..WordLen :
              KeyOf[p] \in DOMAIN greens =>
                  generated_words[n][p] = greens[KeyOf[p]]
        /\ (\E k \in DOMAIN greens \cap DOMAIN yellows :
                greens[k] \in Range(yellows[k])) => generated_words = <<>>

C2_Witness ==
    /\ Returned
    /\ generated_words # <<>>
    /\ \E k \in DOMAIN greens \cap DOMAIN yellows :
          chars_by_index[k] = <<greens[k]>>

\* C4: every returned word contains every distinct yellow letter
C4_ContainsEveryYellowLetter ==
    Returned =>
        \A n \in 1..Len(generated_words) :
            YellowSet(yellows) \subseteq Range(generated_words[n])

C4_Witness ==
    /\ Returned
    /\ Cardinality(YellowSet(yellows)) = 2
    /\ grays # <<>>
    /\ Len(generated_words) >= 2

\* C5: every returned word is in the dictionary; an empty dictionary gives
\* an empty list
C5_SubsetOfDictionary ==
    Returned =>
        /\ Range(generated_words) \subseteq english_words
        /\ english_words = {} => generated_words = <<>>

C5_Witness ==
    /\ Returned
    /\ generated_words # <<>>
    /\ \E w \in AllWords \ english_words :
          /\ Range(w) \subseteq Pool
          /\ YellowSet(yellows) \subseteq Range(w)

\* the words the completeness claim is about
Admissible(w) ==
    /\ Range(w) \subseteq Pool
    /\ \A p \in 1..WordLen :
          /\ KeyOf[p] \in DOMAIN greens => w[p] = greens[KeyOf[p]]
          /\ w[p] \notin YellowAt(p)
    /\ YellowSet(yellows) \subseteq Range(w)

\* C6: every admissible dictionary word is returned
C6_Complete ==
    Returned =>
        \A w \in english_words : Admissible(w) => w \in Range(generated_words)

C6_Witness ==
    /\ Returned
    /\ greens # <<>> /\ yellows # <<>> /\ grays # <<>>
    /\ \E w \in english_words : Admissible(w) /\ w \in Range(generated_words)

AllGreen == DOMAIN greens = Keys /\ yellows = <<>> /\ grays = <<>>

GreenWord == [p \in 1..WordLen |-> greens[KeyOf[p]]]

\* C7: five greens and nothing else return the green word if the dictionary
\* has it, and nothing otherwise
C7_AllGreen ==
    (Returned /\ AllGreen) =>
        generated_words =
            IF GreenWord \in english_words THEN <<GreenWord>> ELSE <<>>

C7_Witness ==
    /\ Returned /\ AllGreen
    /\ Cardinality(Range(GreenWord)) = 2
    /\ generated_words = <<GreenWord>>

\* C8 as stated: the returned list is in alphabetical order
C8_Lexicographic ==
    Returned =>
        \A i, j \in 1..Len(generated_words) :
            i < j => LexLess(generated_words[i], generated_words[j])

\* C8 amended: the returned list is in generation order: of two returned
\* words, the earlier one is the one the nested loops reach first, slot 1
\* outermost, every slot in the order of its candidate list
C8_GenerationOrder ==
    Returned =>
        \A i, j \in 1..Len(generated_words) :
            i < j => GeneratedBefore(generated_words[i], generated_words[j])

C8_Witness ==
    /\ Returned
    /\ \E i, j \in 1..Len(generated_words) :
          /\ i < j
          /\ LexLess(generated_words[j], generated_words[i])
          /\ GeneratedBefore(generated_words[i], generated_words[j])

-----------------------------------------------------------------------------
(* download_if_updated *)

Versions == 1..MaxVersions

\* lines of words.txt that load_words drops: too short, and not alphabetic
JunkLines == {<<"a", "b">>, <<"a", "b", "a", "b", "1">>}

\* the body the server sends for version v, as words.txt and a response
\* hold it
ContentOf(v) == "words-v" \o Str(v)

\* the lines of that body, one list of words per version
LinesOf(content) ==
    LET v == CHOOSE x \in Versions : ContentOf(x) = content
    IN  JunkLines \cup
        {w \in AllWords : Cardinality({p \in 1..WordLen : w[p] = "b"}) <= 6 - v}

\* the ETag the server sends with version v
ETagOf(v) == "etag-v" \o Str(v)

\* lines 26-30: the If-None-Match header of the request ("" when none is sent)
IfNoneMatch(etag) == IF etag # NoFile /\ etag # "" THEN etag ELSE ""

\* what urlopen can come back with: 200 with or without an ETag header, an
\* HTTPError 304 when the header matches the server's version, another error
Responses(srv, header) ==
    {[status |-> 200, etag |-> ETagOf(srv), content |-> ContentOf(srv)],
     [status |-> 200, etag |-> "", content |-> ContentOf(srv)],
     [status |-> 500, etag |-> "", content |-> ""]}
    \cup (IF header = ETagOf(srv)
          THEN {[status |-> 304, etag |-> "", content |-> ""]}
          ELSE {})

\* lines 38-39
WordFileAfter(resp, words) ==
    IF resp.status = 200 THEN resp.content ELSE words

\* lines 40-42
ETagFileAfter(resp, etag) ==
    IF resp.status = 200 /\ resp.etag # "" THEN resp.etag ELSE etag

\* the server publishes another version between two runs
ServerUpdate ==
    /\ pc = "idle"
    /\ server' \in Versions \ {server}
    /\ UNCHANGED <<pc, etag_file, word_file, response, genVars, mainVars>>

\* lines 24-33: the request goes out and the response comes back
Request ==
    /\ pc = "idle"
    /\ response' \in Responses(server, IfNoneMatch(etag_file))
    /\ pc' = "response"
    /\ UNCHANGED <<etag_file, word_file, server, genVars, mainVars>>

\* lines 34-39 and 44-50: a 200 rewrites words.txt, anything else is logged
HandleResponse ==
    /\ pc = "response"
    /\ word_file' = WordFileAfter(response, word_file)
    /\ IF response.status = 200
       THEN pc' = "words_written" /\ UNCHANGED response
       ELSE pc' = "idle" /\ response' = Idle
    /\ UNCHANGED <<etag_file, server, genVars, mainVars>>

\* lines 40-43: the ETag of the response, if it has one, is written
WriteETag ==
    /\ pc = "words_written"
    /\ etag_file' = ETagFileAfter(response, etag_file)
    /\ response' = Idle
    /\ pc' = "idle"
    /\ UNCHANGED <<word_file, server, genVars, mainVars>>

GenIdle ==
    /\ greens = <<>> /\ yellows = <<>> /\ grays = <<>> /\ english_words = {}
    /\ yellow_chars = <<>> /\ chars_by_index = <<>> /\ generated_words = <<>>
    /\ yellow_chars2 = <<>> /\ generated_words2 = <<>>

\* no cached files
InitCache ==
    /\ pc = "idle"
    /\ etag_file = NoFile /\ word_file = NoFile
    /\ server \in Versions
    /\ response = Idle
    /\ GenIdle /\ MainIdle

NextCache == ServerUpdate \/ Request \/ HandleResponse \/ WriteETag

SpecCache == InitCache /\ [][NextCache]_vars

\* C10: between two runs, an etag in etag.txt means words.txt holds the
\* content the server served with that etag
C10_CacheConsistent ==
    (pc = "idle" /\ etag_file # NoFile) =>
        \E v \in Versions : etag_file = ETagOf(v) /\ word_file = ContentOf(v)
-----------------------------------------------------------------------------
(* main *)

\* the green texts typed: nothing, or one letter after some underscores
GreenTexts ==
    {<<>>} \cup {[i \in 1..n |-> IF i = n THEN "a" ELSE "_"] : n \in 1..MaxGreenLen}

\* a yellow token as the pair part[0], part[1:]: well formed ("a1"), with a
\* position that is no slot ("a6"), with no position ("b"), with a position
\* that is no number ("bx")
Tokens == {<<"a", "1">>, <<"a", "6">>, <<"b", "">>, <<"b", "x">>}

YellowTexts == SeqsUpTo(Tokens, MaxTokens)

GrayTexts == {<<>>, <<"b">>}

\* str.isalpha for the characters of the model
IsAlpha(w) == \A i \in 1..Len(w) : w[i] \in Range(ENGLISH_CHARACTERS)

\* lines 53-62: the five-letter alphabetic lines of the file
load_words(content) ==
    {w \in LinesOf(content) : Len(w) = WordLen /\ IsAlpha(w)}

\* lines 122-125
ParseGreens(text) ==
    [k \in {Str(i) : i \in {j \in 1..Len(text) : text[j] # "_"}} |->
        text[CHOOSE i \in 1..Len(text) : Str(i) = k]]

\* lines 130-134: setdefault(number, []).append(letter), token by token
ParseYellows(tokens) ==
    [k \in {tokens[i][2] : i \in 1..Len(tokens)} |->
        LET at == Ascending({i \in 1..Len(tokens) : tokens[i][2] = k})
        IN  [n \in 1..Len(at) |-> tokens[at[n]][1]]]

\* lines 107-109: the three prompts
ReadInput ==
    /\ pc = "start"
    /\ green' \in GreenTexts
    /\ yellow' \in YellowTexts
    /\ gray' \in GrayTexts
    /\ pc' = "download"
    /\ UNCHANGED <<raised, reported, exit_code, genVars, cacheVars>>

\* line 114: download_if_updated, from the request to the last write
Download ==
    /\ pc = "download"
    /\ \E resp \in Responses(server, IfNoneMatch(etag_file)) :
          /\ word_file' = WordFileAfter(resp, word_file)
          /\ etag_file' = ETagFileAfter(resp, etag_file)
    /\ pc' = "load"
    /\ UNCHANGED <<server, response, genVars, mainVars>>

\* lines 115-119: without words.txt main returns, else the words are loaded
LoadWords ==
    /\ pc = "load"
    /\ IF word_file = NoFile
       THEN pc' = "exit" /\ UNCHANGED english_words
       ELSE pc' = "greens" /\ english_words' = load_words(word_file)
    /\ UNCHANGED <<greens, yellows, grays, yellow_chars, chars_by_index,
                   generated_words, yellow_chars2, generated_words2,
                   mainVars, cacheVars>>

\* lines 121-127
ProcessGreens ==
    /\ pc = "greens"
    /\ greens' = ParseGreens(green)
    /\ pc' = "yellows"
    /\ UNCHANGED <<yellows, grays, english_words, yellow_chars, chars_by_index,
                   generated_words, yellow_chars2, generated_words2,
                   mainVars, cacheVars>>

\* lines 129-136
ProcessYellows ==
    /\ pc = "yellows"
    /\ yellows' = ParseYellows(yellow)
    /\ pc' = "grays"
    /\ UNCHANGED <<greens, grays, english_words, yellow_chars, chars_by_index,
                   generated_words, yellow_chars2, generated_words2,
                   mainVars, cacheVars>>

\* lines 138-141
ProcessGrays ==
    /\ pc = "grays"
    /\ grays' = gray
    /\ pc' = "generate"
    /\ UNCHANGED <<greens, yellows, english_words, yellow_chars, chars_by_index,
                   generated_words, yellow_chars2, generated_words2,
                   mainVars, cacheVars>>

\* line 143: the call returns the candidates, or the KeyError of line 84
\* leaves main
CallGenerate ==
    /\ pc = "generate"
    /\ IF RaisesKeyError(greens, yellows)
       THEN /\ raised' = "generate_words"
            /\ pc' = "fatal"
            /\ UNCHANGED <<yellow_chars, chars_by_index, generated_words>>
       ELSE /\ \E yc \in Orderings(YellowSet(yellows)) :
                  /\ yellow_chars' = yc
                  /\ chars_by_index' =
                        CharsByIndex(greens, yellows,
                                     AvailableChars(greens, yc, grays))
                  /\ generated_words' =
                        generate_words(greens, yellows, grays, english_words, yc)
            /\ pc' = "report"
            /\ UNCHANGED raised
    /\ UNCHANGED <<greens, yellows, grays, english_words, yellow_chars2,
                   generated_words2, green, yellow, gray, reported, exit_code,
                   cacheVars>>

\* lines 145-154: the candidates are logged and main returns
Report ==
    /\ pc = "report"
    /\ reported' = generated_words
    /\ pc' = "exit"
    /\ UNCHANGED <<green, yellow, gray, raised, exit_code, genVars, cacheVars>>

\* lines 207-209: the exception is logged and the exit code set
Fatal ==
    /\ pc = "fatal"
    /\ exit_code' = 1
    /\ pc' = "exit"
    /\ UNCHANGED <<green, yellow, gray, raised, reported, genVars, cacheVars>>

\* a run starts with no cached files or with the files of an earlier run
InitMain ==
    /\ pc = "start"
    /\ \/ etag_file = NoFile /\ word_file = NoFile
       \/ etag_file = ETagOf(1) /\ word_file = ContentOf(1)
    /\ server \in Versions
    /\ response = Idle
    /\ GenIdle /\ MainIdle

NextMain ==
    \/ ReadInput \/ Download \/ LoadWords \/ ProcessGreens \/ ProcessYellows
    \/ ProcessGrays \/ CallGenerate \/ Report \/ Fatal

SpecMain == InitMain /\ [][NextMain]_vars

\* the run is over and had a word list to work with
RunEnded == pc = "exit" /\ word_file # NoFile

\* a token whose position part is missing, no number, or outside 1..5
Malformed(token) == token[2] \notin Keys

====
